---- MODULE Spec2Model ----
(***************************************************************************)
(* Model of the supplier risk evaluator of app/services/llm_service.py:    *)
(* WeatherAgent, GraphAgent, OrchestratorAgent.evaluate_supplier and       *)
(* main_cli; and of the inventory analyzer of app/services/                *)
(* spring_client.py.                                                       *)
(*                                                                         *)
(* Numbers.  The program computes with floats; the model computes with     *)
(* exact integers in fixed units:                                          *)
(*   - a risk score is an integer number of 1/RiskUnit risk points;        *)
(*   - a reliability and a weight are integers in hundredths;              *)
(*   - an incident severity is an integer in tenths;                       *)
(*   - the composite is kept in 1/(RiskUnit*WeightUnit) points, which is   *)
(*     the unit of the products risk * weight, so no division rounds;      *)
(*   - a latitude is a position on the enterprise's meridian, measured in  *)
(*     kilometres of arc from the equator, and every point of the model    *)
(*     lies on that one meridian: there the haversine formula reduces to   *)
(*     R * |dphi|, the difference of the two positions.                    *)
(***************************************************************************)
EXTENDS Integers, Sequences, FiniteSets, TLC

VARIABLES
    pc,                \* position of main_cli / evaluate_supplier
    api_key,           \* WeatherAgent.api_key is usable (TRUE) or missing (FALSE)
    enterprise_coords, \* OrchestratorAgent.enterprise_coords
    weights,           \* OrchestratorAgent.weights
    supplier,          \* evaluate_supplier: supplier
    dependency_risk,   \* evaluate_supplier: dependency_risk
    location_text,     \* compute_distance_and_risk: location_text handed to the geocoder
    geocoder,          \* how the call self.geolocator.geocode of geocode_location ended
    dist_info,         \* evaluate_supplier: dist_info
    weather_json,      \* evaluate_supplier: weather_json (or how fetch_weather ended)
    weather_risk,      \* evaluate_supplier: weather_risk
    result,            \* what evaluate_supplier returned
    error,             \* the exception that left evaluate_supplier / main_cli
    pauses,            \* completed time.sleep(1) pauses of geocode_location
    geocode_requests,  \* texts sent to the geocoding collaborator, in order
    weather_requests,  \* coordinates sent to the weather collaborator, in order
    closed,            \* number of GraphAgent.close() calls
    evaluations,       \* calls of evaluate_supplier made so far, the current one included
    inventory          \* spring_client: the call of its function under way

vars == <<pc, api_key, enterprise_coords, weights, supplier, dependency_risk,
          location_text, geocoder, dist_info, weather_json, weather_risk, result,
          error, pauses, geocode_requests, weather_requests, closed, evaluations,
          inventory>>

----------------------------------------------------------------------------
(* Units and optional values *)

RiskUnit == 60 * 100
WeightUnit == 10 * 10
ReliabilityUnit == 10 * 10
SeverityUnit == 5 + 5

\* t tenths of a risk point
Risk10(t) == (t * RiskUnit) \div 10

Min(a, b) == IF a <= b THEN a ELSE b
Max(a, b) == IF a >= b THEN a ELSE b
Abs(a) == IF a >= 0 THEN a ELSE -a

\* Python's None, a numeric value, a value float() / isinstance rejects
None == [tag |-> "none"]
Num(v) == [tag |-> "num", val |-> v]
NonNumeric == [tag |-> "str"]
IsNum(x) == x.tag = "num"

Coords(lat, lon) == [tag |-> "coords", lat |-> lat, lon |-> lon]

\* an exception that a function lets through to its caller
Propagated == [tag |-> "exception"]

----------------------------------------------------------------------------
(* haversine_km *)

\* Great-circle distance of two points of one meridian: with dlambda = 0 the
\* formula gives a = sin(dphi/2)^2, c = |dphi| and R * c (R = 6371 km) is
\* |lat2 - lat1| in kilometres of arc.
HaversineKm(lat1, lon1, lat2, lon2) == Abs(lat2 - lat1)

----------------------------------------------------------------------------
(* WeatherAgent.weather_to_risk *)

EmptyJson == [tag |-> "empty"]
Observation(code, wind) == [tag |-> "obs", code |-> code, wind |-> wind]

WindLimit == 15

CodeRisk(code) ==
    IF code = None THEN Risk10(30)
    ELSE IF 200 <= code.val /\ code.val <= 232 THEN Risk10(90)
    ELSE IF 300 <= code.val /\ code.val <= 531
         THEN (IF code.val >= 520 THEN Risk10(80) ELSE Risk10(60))
    ELSE IF 600 <= code.val /\ code.val <= 622 THEN Risk10(70)
    ELSE IF 700 <= code.val /\ code.val <= 781 THEN Risk10(40)
    ELSE IF code.val = 800 THEN Risk10(15)
    ELSE IF 801 <= code.val /\ code.val <= 804 THEN Risk10(25)
    ELSE Risk10(35)

\* the wind rule with ">=" for ">"
WindTuneInclusive(risk, wind_speed) ==
    IF wind_speed >= WindLimit THEN Max(risk, Risk10(70)) ELSE risk

WindTune(risk, wind_speed) ==
    IF wind_speed > WindLimit THEN Max(risk, Risk10(70)) ELSE risk

WeatherToRisk(json) ==
    IF json = EmptyJson THEN Risk10(30)
    ELSE LET risk == CodeRisk(json.code)
             wind_speed == IF json.wind = None THEN 0 ELSE json.wind.val
             tuned == WindTune(risk, wind_speed)
         IN  Min(Risk10(100), Max(0, tuned))

----------------------------------------------------------------------------
(* GraphAgent.compute_dependency_risk *)

DefaultReliability == 70

RECURSIVE SumSeq(_)
SumSeq(s) == IF s = <<>> THEN 0 ELSE Head(s) + SumSeq(Tail(s))

\* sev_list: the severities of the incidents that carry a numeric one
SevValues(incidents) ==
    LET numeric == SelectSeq(incidents, LAMBDA inc : IsNum(inc.severity))
    IN  [i \in 1..Len(numeric) |-> numeric[i].severity.val]

\* incident_score = avg_inc * 4.0
IncidentScore(incidents) ==
    LET sev_list == SevValues(incidents)
    IN  IF Len(sev_list) = 0 THEN 0
        ELSE (SumSeq(sev_list) * 4 * RiskUnit) \div (SeverityUnit * Len(sev_list))

\* the clamp without its lower end
ClampRiskUpperOnly(total) == Min(Risk10(100), total)

\* line 202: max(0.0, min(10.0, total))
ClampRisk(total) == Max(0, Min(Risk10(100), total))

\* compute_dependency_risk taking an absent reliability as 1.0
ComputeDependencyRiskTrusting(s) ==
    LET reliability == IF s.reliability = None THEN ReliabilityUnit
                       ELSE s.reliability.val
        base == ((ReliabilityUnit - reliability) * 6 * RiskUnit) \div ReliabilityUnit
        incident_score == IncidentScore(s.incidents)
        delayed_penalty == IF s.delayed THEN Risk10(15) ELSE 0
    IN  ClampRisk(base + incident_score + delayed_penalty)

ComputeDependencyRisk(s) ==
    LET reliability == IF s.reliability = None THEN DefaultReliability
                       ELSE s.reliability.val
        base == ((ReliabilityUnit - reliability) * 6 * RiskUnit) \div ReliabilityUnit
        incident_score == IncidentScore(s.incidents)
        delayed_penalty == IF s.delayed THEN Risk10(15) ELSE 0
        total == base + incident_score + delayed_penalty
    IN  ClampRisk(total)

----------------------------------------------------------------------------
(* GraphAgent.compute_distance_and_risk *)

\* lines 224-232: supplier.lat / supplier.lon when both are there and float() takes them
ExplicitCoords(s) ==
    IF s.lat # None /\ s.lon # None
    THEN (IF IsNum(s.lat) /\ IsNum(s.lon) THEN Coords(s.lat.val, s.lon.val) ELSE None)
    ELSE None

\* the text to geocode with the name preferred to the location
LocationTextNameFirst(s) ==
    IF s.name # "" THEN s.name
    ELSE IF s.location # "" THEN s.location
    ELSE ""

\* line 236: supplier.get("location") or supplier.get("name") or ""
LocationText(s) ==
    IF s.location # "" THEN s.location
    ELSE IF s.name # "" THEN s.name
    ELSE ""

\* the tiers with "<" for "<="
DistanceTierExclusive(dist_km) ==
    IF dist_km < 50 THEN Risk10(15)
    ELSE IF dist_km < 300 THEN Risk10(35)
    ELSE IF dist_km < 1000 THEN Risk10(60)
    ELSE Risk10(85)

DistanceTier(dist_km) ==
    IF dist_km <= 50 THEN Risk10(15)
    ELSE IF dist_km <= 300 THEN Risk10(35)
    ELSE IF dist_km <= 1000 THEN Risk10(60)
    ELSE Risk10(85)

\* lines 249-259
DistanceRisk(dist_km) ==
    Min(Risk10(100), DistanceTier(dist_km) + (dist_km * 2 * RiskUnit) \div 2000)

UnresolvedDistInfo ==
    [supplier_coords |-> None, distance_km |-> None, distance_risk |-> Risk10(50)]

\* compute_distance_and_risk reporting the enterprise's coordinates as the
\* supplier's
DistInfoEnterprise(supplier_coords, enterprise) ==
    IF supplier_coords = None THEN UnresolvedDistInfo
    ELSE LET dist_km == HaversineKm(supplier_coords.lat, supplier_coords.lon,
                                    enterprise.lat, enterprise.lon)
         IN  [supplier_coords |-> Coords(enterprise.lat, enterprise.lon),
              distance_km |-> Num(dist_km),
              distance_risk |-> DistanceRisk(dist_km)]

\* lines 242-260
DistInfo(supplier_coords, enterprise) ==
    IF supplier_coords = None THEN UnresolvedDistInfo
    ELSE LET dist_km == HaversineKm(supplier_coords.lat, supplier_coords.lon,
                                    enterprise.lat, enterprise.lon)
         IN  [supplier_coords |-> supplier_coords,
              distance_km |-> Num(dist_km),
              distance_risk |-> DistanceRisk(dist_km)]

----------------------------------------------------------------------------
(* GraphAgent.geocode_location *)

GeocoderRaised == [tag |-> "raised"]
GeocoderNothing == [tag |-> "nothing"]

\* geocode_location without its try/except
GeocodeLocationUncaught(outcome) ==
    IF outcome.tag = "coords" THEN outcome
    ELSE IF outcome.tag = "raised" THEN Propagated
    ELSE None

\* lines 161-168: what geocode_location returns for each way the collaborator
\* call self.geolocator.geocode ends; the except clause turns a raise into None
GeocodeLocation(outcome) ==
    IF outcome.tag = "coords" THEN outcome ELSE None

----------------------------------------------------------------------------
(* OrchestratorAgent.evaluate_supplier: weather step, aggregation *)

FetchRaised == [tag |-> "raised"]

\* the weather step without its try/except
WeatherRiskOfUncaught(coords, fetched) ==
    IF coords # None
    THEN (IF fetched = FetchRaised THEN Propagated ELSE Num(WeatherToRisk(fetched)))
    ELSE Num(Risk10(40))

\* lines 286-296: the except clause turns a raise of fetch_weather into 4.0
WeatherRiskOf(coords, fetched) ==
    IF coords # None
    THEN (IF fetched = FetchRaised THEN Num(Risk10(40)) ELSE Num(WeatherToRisk(fetched)))
    ELSE Num(Risk10(40))

\* self.weights.get(key, default)
WeightOf(w, default) == IF w = None THEN default ELSE w.val

\* lines 299-303, in 1/(RiskUnit*WeightUnit) points
CompositeRaw(dep, dist, wea, w) ==
      dep * WeightOf(w.dependency, 40)
    + dist * WeightOf(w.distance, 20)
    + wea * WeightOf(w.weather, 40)

\* the weighted sum divided by the sum of the weights
CompositeNormalized(dep, dist, wea, w) ==
    LET total == WeightOf(w.dependency, 40) + WeightOf(w.distance, 20)
                 + WeightOf(w.weather, 40)
        raw == CompositeRaw(dep, dist, wea, w)
    IN  Min(Risk10(100) * WeightUnit,
            Max(0, IF total = 0 THEN raw ELSE (raw * WeightUnit) \div total))

\* line 305
Composite(dep, dist, wea, w) ==
    Min(Risk10(100) * WeightUnit, Max(0, CompositeRaw(dep, dist, wea, w)))

\* a threshold of t hundredths of a point, in the composite's unit
CompositeLevel(t) == t * RiskUnit

\* lines 308-314
PrimaryStatement(composite) ==
    IF composite >= CompositeLevel(750) THEN "High risk"
    ELSE IF composite >= CompositeLevel(500) THEN "Medium risk"
    ELSE "Low risk"

\* the advisories with ">" for ">="
AdvisoriesExclusive(dep, dist, wea) ==
       (IF dep > Risk10(65) THEN <<"Supplier reliability">> ELSE <<>>)
    \o (IF dist > Risk10(60) THEN <<"Long distance">> ELSE <<>>)
    \o (IF wea > Risk10(70) THEN <<"Severe weather">> ELSE <<>>)

\* lines 317-322
Advisories(dep, dist, wea) ==
       (IF dep >= Risk10(65) THEN <<"Supplier reliability">> ELSE <<>>)
    \o (IF dist >= Risk10(60) THEN <<"Long distance">> ELSE <<>>)
    \o (IF wea >= Risk10(70) THEN <<"Severe weather">> ELSE <<>>)

Recommendation(composite, dep, dist, wea) ==
    <<PrimaryStatement(composite)>> \o Advisories(dep, dist, wea)

\* lines 324-335
Result(s, dep, info, wea, w) ==
    LET composite == Composite(dep, info.distance_risk, wea, w)
    IN  [supplier_name |-> s.name,
         dependency_risk |-> dep,
         distance_km |-> info.distance_km,
         distance_risk |-> info.distance_risk,
         weather_risk |-> wea,
         composite_risk |-> composite,
         recommendation |-> Recommendation(composite, dep, info.distance_risk, wea)]

----------------------------------------------------------------------------
(* Inputs *)

MaxIncidents == 2

\* the enterprise's meridian (ENTERPRISE_COORDS[1], in whole degrees)
Meridian == 81

SupplierRecord(name, location, reliability, delayed, incidents, lat, lon) ==
    [name |-> name, location |-> location, reliability |-> reliability,
     delayed |-> delayed, incidents |-> incidents, lat |-> lat, lon |-> lon]

\* no function of spring_client is under way
NoInventory == [pc |-> "idle"]

\* no record fetched yet; the {} that get_supplier_node returns for an unknown id
NoSupplier == [tag |-> "none"]
EmptyRecord == [tag |-> "empty"]

\* the check of line 275 left out
NotSupplierUnchecked(rec) == FALSE

\* line 275: not supplier
NotSupplier(rec) == rec = EmptyRecord

Incident(severity) == [severity |-> severity]

\* ENTERPRISE_COORDS (7.8731 degrees north is 875 km of arc) and an override
EnterpriseCoordsSet == {Coords(875, Meridian), Coords(0, Meridian)}

WeightConfigs ==
    { [dependency |-> Num(40), distance |-> Num(20), weather |-> Num(40)],
      [dependency |-> None, distance |-> None, weather |-> None],
      [dependency |-> Num(100), distance |-> Num(100), weather |-> Num(100)],
      [dependency |-> Num(0), distance |-> Num(150), weather |-> None] }

\* the records the graph holds in the runs of the whole evaluation
Suppliers ==
    { SupplierRecord(name, location, reliability, delayed, incidents, lat, lon) :
        name \in {"", "LankaCoco"}, location \in {"", "Kandy"},
        reliability \in {None, Num(90), Num(0)}, delayed \in BOOLEAN,
        incidents \in {<<>>, <<Incident(Num(10))>>},
        lat \in {None, NonNumeric, Num(875), Num(2375)},
        lon \in {None, Num(Meridian)} }

\* what the geocoding collaborator can answer
GeocoderOutcomes ==
    {GeocoderRaised, GeocoderNothing, Coords(875, Meridian), Coords(1176, Meridian)}

\* what fetch_weather's request can end with
WeatherOutcomes ==
    {FetchRaised, EmptyJson} \cup
    { Observation(code, wind) :
        code \in {None, Num(201), Num(500), Num(800)}, wind \in {None, Num(20)} }

----------------------------------------------------------------------------
(* main_cli and OrchestratorAgent.evaluate_supplier, step by step *)

Init ==
    /\ pc = "evaluate"
    /\ api_key \in BOOLEAN
    /\ enterprise_coords \in EnterpriseCoordsSet
    /\ weights \in WeightConfigs
    /\ supplier = NoSupplier
    /\ dependency_risk = None
    /\ location_text = ""
    /\ geocoder = None
    /\ dist_info = None
    /\ weather_json = None
    /\ weather_risk = None
    /\ result = None
    /\ error = "none"
    /\ pauses = 0
    /\ geocode_requests = <<>>
    /\ weather_requests = <<>>
    /\ closed = 0
    /\ evaluations = 1
    /\ inventory = NoInventory

\* lines 274-276: the graph lookup (lines 152-157) raises, and nothing catches
\* it, or it returns {} or the record; {} raises the ValueError of line 276
GetSupplierNodeFrom(records) ==
    /\ pc = "evaluate"
    /\ \/ /\ error' = "GraphError"
          /\ pc' = "finally"
          /\ UNCHANGED supplier
       \/ \E rec \in records \cup {EmptyRecord} :
             /\ supplier' = rec
             /\ IF NotSupplier(rec)
                THEN error' = "NotFound" /\ pc' = "finally"
                ELSE pc' = "dependency" /\ UNCHANGED error
    /\ UNCHANGED <<inventory, evaluations, api_key, enterprise_coords, weights, dependency_risk, location_text,
                   geocoder, dist_info, weather_json, weather_risk, result, pauses,
                   geocode_requests, weather_requests, closed>>

GetSupplierNode == GetSupplierNodeFrom(Suppliers)

\* line 279
DependencyStep ==
    /\ pc = "dependency"
    /\ dependency_risk' = Num(ComputeDependencyRisk(supplier))
    /\ pc' = "distance"
    /\ UNCHANGED <<inventory, evaluations, api_key, enterprise_coords, weights, supplier, location_text,
                   geocoder, dist_info, weather_json, weather_risk, result, error,
                   pauses, geocode_requests, weather_requests, closed>>

\* line 282, compute_distance_and_risk up to the call of geocode_location
\* (lines 224-238), or to its return when no geocoding is needed
DistanceStart ==
    /\ pc = "distance"
    /\ LET supplier_coords == ExplicitCoords(supplier)
           text == LocationText(supplier)
       IN  IF supplier_coords = None /\ text # ""
           THEN /\ location_text' = text
                /\ pc' = "geocode_sleep"
                /\ UNCHANGED dist_info
           ELSE /\ dist_info' = DistInfo(supplier_coords, enterprise_coords)
                /\ pc' = "weather"
                /\ UNCHANGED location_text
    /\ UNCHANGED <<inventory, evaluations, api_key, enterprise_coords, weights, supplier, dependency_risk,
                   geocoder, weather_json, weather_risk, result, error, pauses,
                   geocode_requests, weather_requests, closed>>

\* geocode_location without its pause
GeocodeSleepSkipped ==
    /\ pc = "geocode_sleep"
    /\ pc' = "geocode_request"
    /\ UNCHANGED <<inventory, evaluations, api_key, enterprise_coords, weights, supplier,
                   dependency_risk, location_text, geocoder, dist_info, weather_json,
                   weather_risk, result, error, pauses, geocode_requests,
                   weather_requests, closed>>

\* line 162
GeocodeSleep ==
    /\ pc = "geocode_sleep"
    /\ pauses' = pauses + 1
    /\ pc' = "geocode_request"
    /\ UNCHANGED <<inventory, evaluations, api_key, enterprise_coords, weights, supplier, dependency_risk,
                   location_text, geocoder, dist_info, weather_json, weather_risk,
                   result, error, geocode_requests, weather_requests, closed>>

\* lines 163-168, then compute_distance_and_risk to its return (lines 239-260)
GeocodeRequest ==
    /\ pc = "geocode_request"
    /\ geocode_requests' = Append(geocode_requests, location_text)
    /\ \E outcome \in GeocoderOutcomes :
          /\ geocoder' = outcome
          /\ LET geocoded == GeocodeLocation(outcome)
             IN  IF geocoded = Propagated
                 THEN error' = "GeocodeError" /\ pc' = "finally" /\ UNCHANGED dist_info
                 ELSE /\ dist_info' = DistInfo(geocoded, enterprise_coords)
                      /\ pc' = "weather"
                      /\ UNCHANGED error
    /\ UNCHANGED <<inventory, evaluations, api_key, enterprise_coords, weights, supplier, dependency_risk,
                   location_text, weather_json, weather_risk, result, pauses,
                   weather_requests, closed>>

\* lines 286-296; fetch_weather (lines 74-82) sends no request without an API key
WeatherStepFrom(outcomes) ==
    /\ pc = "weather"
    /\ LET coords == dist_info.supplier_coords
           Finish(fetched) ==
               LET risk == WeatherRiskOf(coords, fetched)
               IN  IF risk = Propagated
                   THEN /\ error' = "WeatherError"
                        /\ pc' = "finally"
                        /\ UNCHANGED weather_risk
                   ELSE /\ weather_risk' = risk
                        /\ pc' = "aggregate"
                        /\ UNCHANGED error
       IN  IF coords = None
           THEN /\ Finish(None)
                /\ UNCHANGED <<weather_json, weather_requests>>
           ELSE IF ~api_key
           THEN /\ weather_json' = EmptyJson
                /\ Finish(EmptyJson)
                /\ UNCHANGED weather_requests
           ELSE /\ weather_requests' = Append(weather_requests, coords)
                /\ \E fetched \in outcomes :
                      /\ weather_json' = fetched
                      /\ Finish(fetched)
    /\ UNCHANGED <<inventory, evaluations, api_key, enterprise_coords, weights, supplier, dependency_risk,
                   location_text, geocoder, dist_info, result, pauses,
                   geocode_requests, closed>>

WeatherStep == WeatherStepFrom(WeatherOutcomes)

\* lines 298-335
Aggregate ==
    /\ pc = "aggregate"
    /\ result' = Result(supplier, dependency_risk.val, dist_info, weather_risk.val, weights)
    /\ pc' = "print"
    /\ UNCHANGED <<inventory, evaluations, api_key, enterprise_coords, weights, supplier, dependency_risk,
                   location_text, geocoder, dist_info, weather_json, weather_risk,
                   error, pauses, geocode_requests, weather_requests, closed>>

\* lines 357-366: the report is written, or writing it raises
PrintReport ==
    /\ pc = "print"
    /\ \/ UNCHANGED error
       \/ error' = "PrintError"
    /\ pc' = "finally"
    /\ UNCHANGED <<inventory, evaluations, api_key, enterprise_coords, weights, supplier, dependency_risk,
                   location_text, geocoder, dist_info, weather_json, weather_risk,
                   result, pauses, geocode_requests, weather_requests, closed>>

\* the close placed after the report instead of in a finally clause
CloseOnSuccess ==
    /\ pc = "finally"
    /\ closed' = IF error = "none" THEN closed + 1 ELSE closed
    /\ pc' = "exit"
    /\ UNCHANGED <<inventory, evaluations, api_key, enterprise_coords, weights, supplier,
                   dependency_risk, location_text, geocoder, dist_info, weather_json,
                   weather_risk, result, error, pauses, geocode_requests,
                   weather_requests>>

\* lines 367-368
Close ==
    /\ pc = "finally"
    /\ closed' = closed + 1
    /\ pc' = "exit"
    /\ UNCHANGED <<inventory, evaluations, api_key, enterprise_coords, weights, supplier, dependency_risk,
                   location_text, geocoder, dist_info, weather_json, weather_risk,
                   result, error, pauses, geocode_requests, weather_requests>>

Next ==
    \/ GetSupplierNode
    \/ DependencyStep
    \/ DistanceStart
    \/ GeocodeSleep
    \/ GeocodeRequest
    \/ WeatherStep
    \/ Aggregate
    \/ PrintReport
    \/ Close

Spec == Init /\ [][Next]_vars

\* main_cli is one sequential thread and every call it waits for is bounded
\* (the weather request and the geocoder by their timeouts of 10 s, the pause
\* by its second), so a step that can be taken is eventually taken
SpecLive == Spec /\ WF_vars(Next)

----------------------------------------------------------------------------
(* The calculators on their own, each started at its step of evaluate_supplier
   with inputs drawn from a wider set than the runs of the whole evaluation *)

SeqsUpTo(S, n) == UNION { [1..k -> S] : k \in 0..n }

DefaultEnterprise == Coords(875, Meridian)
DefaultWeights == [dependency |-> Num(40), distance |-> Num(20), weather |-> Num(40)]

\* the state of evaluate_supplier at position p for the record s, before any
\* collaborator but the graph has been called
AtStep(p, s, e, w, key) ==
    /\ pc = p
    /\ api_key = key
    /\ enterprise_coords = e
    /\ weights = w
    /\ supplier = s
    /\ location_text = ""
    /\ geocoder = None
    /\ result = None
    /\ error = "none"
    /\ pauses = 0
    /\ geocode_requests = <<>>
    /\ closed = 0
    /\ evaluations = 1
    /\ inventory = NoInventory

SeverityValues == {None, NonNumeric, Num(-10), Num(0), Num(5), Num(10), Num(20)}

ReliabilityValues ==
    {None} \cup {Num(r) : r \in {-50, 0, 25, 50, 70, 90, 100, 150}}

DependencySuppliers ==
    { SupplierRecord("LankaCoco", "Kandy", reliability, delayed, incidents,
                     Num(875), Num(Meridian)) :
        reliability \in ReliabilityValues, delayed \in BOOLEAN,
        incidents \in SeqsUpTo({Incident(v) : v \in SeverityValues}, MaxIncidents) }

InitDependency ==
    /\ \E s \in DependencySuppliers :
          AtStep("dependency", s, DefaultEnterprise, DefaultWeights, TRUE)
    /\ dependency_risk = None
    /\ dist_info = None
    /\ weather_json = None
    /\ weather_risk = None
    /\ weather_requests = <<>>

SpecDependency == InitDependency /\ [][DependencyStep]_vars

\* distances around the tier boundaries 50, 300 and 1000 km and the cap
DistanceProbe ==
    (0..3) \cup (48..52) \cup (298..302) \cup (998..1002) \cup (1498..1502) \cup {3000}

\* records without a text to geocode: coordinates north or south of the
\* enterprise, or no usable coordinates
DistanceSuppliers(e) ==
    { SupplierRecord("", "", Num(90), FALSE, <<>>, lat, lon) :
        lat \in {Num(e.lat + d) : d \in DistanceProbe}
                \cup {Num(e.lat - d) : d \in DistanceProbe} \cup {None, NonNumeric},
        lon \in {Num(Meridian), None} }

InitDistance ==
    /\ \E e \in EnterpriseCoordsSet : \E s \in DistanceSuppliers(e) :
          /\ AtStep("distance", s, e, DefaultWeights, TRUE)
          /\ dependency_risk = Num(ComputeDependencyRisk(s))
    /\ dist_info = None
    /\ weather_json = None
    /\ weather_risk = None
    /\ weather_requests = <<>>

SpecDistance == InitDistance /\ [][DistanceStart]_vars

\* condition codes around every range of weather_to_risk
WeatherCodes ==
    {None} \cup
    { Num(c) : c \in {0, 199, 200, 201, 232, 233, 299, 300, 321, 500, 519, 520, 531,
                      532, 599, 600, 622, 623, 699, 700, 781, 782, 799, 800, 801, 804,
                      805, 900} }

WindSpeeds == {None} \cup {Num(v) : v \in {0, 14, 15, 16, 20, 40}}

AllWeatherOutcomes ==
    {FetchRaised, EmptyJson} \cup
    { Observation(code, wind) : code \in WeatherCodes, wind \in WindSpeeds }

WeatherSupplier ==
    SupplierRecord("LankaCoco", "Kandy", Num(90), FALSE, <<>>, Num(875), Num(Meridian))

InitWeather ==
    /\ \E key \in BOOLEAN :
          AtStep("weather", WeatherSupplier, DefaultEnterprise, DefaultWeights, key)
    /\ dependency_risk = Num(ComputeDependencyRisk(WeatherSupplier))
    /\ dist_info = DistInfo(ExplicitCoords(WeatherSupplier), DefaultEnterprise)
    /\ weather_json = None
    /\ weather_risk = None
    /\ weather_requests = <<>>

WeatherStepAll == WeatherStepFrom(AllWeatherOutcomes)

SpecWeather == InitWeather /\ [][WeatherStepAll]_vars

\* signal triples on and around the thresholds of the recommendation
AggregateSuppliers ==
    { SupplierRecord("LankaCoco", "", reliability, delayed, incidents, lat, Num(Meridian)) :
        reliability \in {Num(100), Num(90), Num(50), Num(0)}, delayed \in BOOLEAN,
        incidents \in {<<>>, <<Incident(Num(5))>>},
        lat \in {NonNumeric, Num(875), Num(1176), Num(2375)} }

AggregateWeights ==
    WeightConfigs \cup
    { [dependency |-> Num(d), distance |-> Num(20), weather |-> Num(w)] :
        d \in {-100, 0, 100, 300}, w \in {0, 40, 100} }

AggregateOutcomes ==
    {FetchRaised, EmptyJson} \cup
    { Observation(Num(c), None) : c \in {201, 500, 600, 900} }

\* lat/lon are explicit or unusable and "location" is empty, so the name is the
\* text a geocoding would use; these records are taken with the name's
\* geocoding skipped, that is with explicit coordinates, or with the
\* geocoder answering nothing
InitAggregate ==
    /\ \E s \in AggregateSuppliers, w \in AggregateWeights, fetched \in AggregateOutcomes :
          LET coords == ExplicitCoords(s)
              info == DistInfo(coords, DefaultEnterprise)
          IN  /\ pc = "aggregate"
              /\ api_key = TRUE
              /\ enterprise_coords = DefaultEnterprise
              /\ weights = w
              /\ supplier = s
              /\ dependency_risk = Num(ComputeDependencyRisk(s))
              /\ location_text = IF coords = None THEN s.name ELSE ""
              /\ geocoder = IF coords = None THEN GeocoderNothing ELSE None
              /\ pauses = IF coords = None THEN 1 ELSE 0
              /\ geocode_requests = IF coords = None THEN <<s.name>> ELSE <<>>
              /\ dist_info = info
              /\ weather_json = IF coords = None THEN None ELSE fetched
              /\ weather_risk = WeatherRiskOf(coords, fetched)
              /\ weather_requests = IF coords = None THEN <<>> ELSE <<coords>>
    /\ result = None
    /\ error = "none"
    /\ closed = 0
    /\ evaluations = 1
    /\ inventory = NoInventory

SpecAggregate == InitAggregate /\ [][Aggregate]_vars

----------------------------------------------------------------------------
(* Properties of the whole evaluation (Spec) *)

\* evaluate_supplier has returned or raised
EvaluationOver == pc \in {"print", "finally", "exit"}

\* the graph lookup returned a supplier's record
HasRecord == supplier # NoSupplier /\ supplier # EmptyRecord

\* C1: when get_supplier_node returns the empty record, evaluate_supplier ends
\* in the not-found failure, which reaches the caller; it returns no result,
\* and neither the geocoder nor the weather service is called.
C1_NotFoundIsFatal ==
    supplier = EmptyRecord =>
        /\ error = "NotFound"
        /\ pc \in {"finally", "exit"}
        /\ result = None
        /\ dependency_risk = None /\ dist_info = None /\ weather_risk = None
        /\ pauses = 0
        /\ geocode_requests = <<>>
        /\ weather_requests = <<>>

C1_Witness == supplier = EmptyRecord /\ pc = "exit" /\ error = "NotFound"

C3_WeatherFallbacks ==
    weather_risk # None =>
        /\ (dist_info.supplier_coords # None /\ weather_json \in {FetchRaised, EmptyJson})
              => weather_risk = Num(Risk10(30))
        /\ dist_info.supplier_coords = None => weather_risk = Num(Risk10(40))

\* the supplier's coordinates cannot be resolved: lat/lon are not both numbers
\* and there is no text to geocode, or the geocoder failed or found nothing
Unresolvable ==
    /\ HasRecord
    /\ ~(IsNum(supplier.lat) /\ IsNum(supplier.lon))
    /\ \/ supplier.location = "" /\ supplier.name = ""
       \/ geocoder \in {GeocoderRaised, GeocoderNothing}

\* C4: when the coordinates cannot be resolved, compute_distance_and_risk
\* returns no coordinates, no distance and distance_risk 5.0; a geocoder that
\* raises is absorbed the same way and the evaluation goes on to its result.
C4_UnresolvedIsNeutral ==
    (Unresolvable /\ pc \notin {"dependency", "distance"}) =>
        /\ dist_info = [supplier_coords |-> None, distance_km |-> None,
                        distance_risk |-> Risk10(50)]
        /\ error \notin {"GeocodeError", "NotFound", "GraphError"}
        /\ EvaluationOver =>
              /\ result # None
              /\ result.distance_km = None
              /\ result.distance_risk = Risk10(50)

C4_Witness ==
    /\ geocoder = GeocoderRaised
    /\ pc = "exit"
    /\ result # None
    /\ result.distance_km = None

----------------------------------------------------------------------------
(* Properties of the aggregation (SpecAggregate) *)

AdvisoryRank(text) ==
    IF text = "Supplier reliability" THEN 1
    ELSE IF text = "Long distance" THEN 2
    ELSE IF text = "Severe weather" THEN 3
    ELSE 0

\* C6: the recommendation starts with the one primary statement that the
\* composite selects (>= 7.5 high, >= 5.0 medium, else low); then come the
\* advisories, each present iff its signal reaches its threshold (6.5, 6.0,
\* 7.0), in the order dependency, distance, weather; 1 to 4 entries, none empty.
C6_RecommendationOrder ==
    result # None =>
        LET rec == result.recommendation
            c == result.composite_risk
            Has(text) == \E i \in 2..Len(rec) : rec[i] = text
        IN  /\ Len(rec) \in 1..4
            /\ \A i \in 1..Len(rec) : rec[i] # ""
            /\ rec[1] = (IF c * 10 >= 75 * RiskUnit * WeightUnit THEN "High risk"
                         ELSE IF c >= 5 * RiskUnit * WeightUnit THEN "Medium risk"
                         ELSE "Low risk")
            /\ \A i \in 2..Len(rec) : AdvisoryRank(rec[i]) > 0
            /\ \A i, j \in 2..Len(rec) :
                  i < j => AdvisoryRank(rec[i]) < AdvisoryRank(rec[j])
            /\ Has("Supplier reliability") <=> (result.dependency_risk * 10 >= 65 * RiskUnit)
            /\ Has("Long distance") <=> (result.distance_risk >= 6 * RiskUnit)
            /\ Has("Severe weather") <=> (result.weather_risk >= 7 * RiskUnit)

\* all three advisories after the primary statement
C6_Witness ==
    /\ result # None
    /\ Len(result.recommendation) = 4
    /\ result.recommendation[1] = "High risk"

----------------------------------------------------------------------------
(* Properties of compute_dependency_risk (SpecDependency) *)

\* C7: compute_dependency_risk returns
\* clamp((1 - reliability) * 6 + incident_score + delayed_penalty, 0, 10) with
\* reliability 0.7 when absent and a penalty of 1.5 when delayed; for a
\* reliability in [0,1], no incidents and no delay that is (1 - reliability) * 6,
\* and no higher reliability gives a higher risk.
C7_DependencyFormula ==
    dependency_risk # None =>
        LET r == IF supplier.reliability = None THEN 70 ELSE supplier.reliability.val
            base == (100 - r) * 6 * (RiskUnit \div 100)
            penalty == IF supplier.delayed THEN 15 * (RiskUnit \div 10) ELSE 0
            total == base + IncidentScore(supplier.incidents) + penalty
            plain == /\ supplier.incidents = <<>>
                     /\ ~supplier.delayed
                     /\ supplier.reliability # None
                     /\ 0 <= r /\ r <= 100
        IN  /\ dependency_risk.val =
                  (IF total < 0 THEN 0 ELSE IF total > 10 * RiskUnit THEN 10 * RiskUnit
                   ELSE total)
            /\ plain =>
                  /\ dependency_risk.val = base
                  /\ \A r2 \in ReliabilityValues \ {None} :
                        (r <= r2.val /\ r2.val <= 100) =>
                           ComputeDependencyRisk([supplier EXCEPT !.reliability = r2])
                              <= dependency_risk.val

\* reliability absent, an incident and a delay: 1.8 + 2.0 + 1.5
C7_Witness ==
    /\ dependency_risk = Num(Risk10(53))
    /\ supplier.reliability = None
    /\ supplier.incidents = <<Incident(Num(5))>>
    /\ supplier.delayed

\* C8: the incident contribution is 4 times the mean of the severities that
\* are numeric and within [0,1]; every other incident is left out of the sum
\* and of the count.
C8_OnlyValidSeverities ==
    dependency_risk # None =>
        LET r == IF supplier.reliability = None THEN 70 ELSE supplier.reliability.val
            base == (100 - r) * 6 * (RiskUnit \div 100)
            penalty == IF supplier.delayed THEN 15 * (RiskUnit \div 10) ELSE 0
            valid == SelectSeq(supplier.incidents,
                               LAMBDA inc : /\ IsNum(inc.severity)
                                            /\ 0 <= inc.severity.val
                                            /\ inc.severity.val <= SeverityUnit)
            sum == SumSeq([i \in 1..Len(valid) |-> valid[i].severity.val])
            contribution == IF Len(valid) = 0 THEN 0
                            ELSE (sum * 4 * RiskUnit) \div (SeverityUnit * Len(valid))
            total == base + contribution + penalty
        IN  dependency_risk.val =
               (IF total < 0 THEN 0 ELSE IF total > 10 * RiskUnit THEN 10 * RiskUnit
                ELSE total)

----------------------------------------------------------------------------
(* Properties of weather_to_risk (SpecWeather) *)

\* C9: for a present observation the risk is 9.0 for codes 200..232, 8.0 for
\* 520..531, 6.0 for 300..519, 7.0 for 600..622, 4.0 for 700..781, 1.5 for 800,
\* 2.5 for 801..804, 3.5 for any other code and 3.0 for no code; a wind speed
\* above 15 raises it to at least 7.0, a wind speed of 15 or none does not.
C9_WeatherMapping ==
    (weather_risk # None /\ weather_json.tag = "obs") =>
        LET code == weather_json.code
            c == code.val
            wind == weather_json.wind
            mapped == IF code = None THEN 30
                      ELSE IF c \in 200..232 THEN 90
                      ELSE IF c \in 520..531 THEN 80
                      ELSE IF c \in 300..519 THEN 60
                      ELSE IF c \in 600..622 THEN 70
                      ELSE IF c \in 700..781 THEN 40
                      ELSE IF c = 800 THEN 15
                      ELSE IF c \in 801..804 THEN 25
                      ELSE 35
            windy == wind # None /\ wind.val > 15
            expected == IF windy /\ mapped < 70 THEN 70 ELSE mapped
        IN  weather_risk = Num(expected * (RiskUnit \div 10))

\* Scenario B: storm code 201 with wind 20 gives 9.0
C9_Witness ==
    /\ weather_json = Observation(Num(201), Num(20))
    /\ weather_risk = Num(9 * RiskUnit)

----------------------------------------------------------------------------
(* Properties of the distance risk (SpecDistance) *)

\* C10: with resolved coordinates, distance_risk is
\* min(10, tier + (distance_km / 2000) * 2) with tier 1.5 up to 50 km, 3.5 up to
\* 300 km, 6.0 up to 1000 km and 8.5 beyond; it never decreases as the
\* distance grows, and 0 km gives 1.5.
C10_DistanceRisk ==
    (dist_info # None /\ dist_info.supplier_coords # None) =>
        LET d == dist_info.distance_km.val
            tier == IF d <= 50 THEN 15 ELSE IF d <= 300 THEN 35
                    ELSE IF d <= 1000 THEN 60 ELSE 85
            tuned == tier * (RiskUnit \div 10) + d * (RiskUnit \div 1000)
            risk == dist_info.distance_risk
        IN  /\ d = Abs(supplier.lat.val - enterprise_coords.lat)
            /\ risk = (IF tuned > 10 * RiskUnit THEN 10 * RiskUnit ELSE tuned)
            /\ d = 0 => risk = 15 * (RiskUnit \div 10)
            /\ \A d2 \in DistanceProbe :
                  /\ d <= d2 => risk <= DistanceRisk(d2)
                  /\ d2 <= d => DistanceRisk(d2) <= risk

\* a supplier at the enterprise's own coordinates
C10_Witness ==
    /\ dist_info # None
    /\ dist_info.distance_km = Num(0)
    /\ dist_info.distance_risk = Risk10(15)

----------------------------------------------------------------------------
(* evaluate_supplier on records, weights and observations out of range *)

\* records with a reliability outside [0,1], severities outside [0,1], and
\* coordinates up to half the globe away from the enterprise
RangeSuppliers ==
    { SupplierRecord("LankaCoco", "", reliability, delayed, incidents, lat, Num(Meridian)) :
        reliability \in {None, Num(-50), Num(50), Num(150), Num(1000)},
        delayed \in BOOLEAN,
        incidents \in {<<>>, <<Incident(Num(20))>>, <<Incident(Num(-10))>>,
                       <<Incident(Num(10)), Incident(Num(10))>>},
        lat \in {None, Num(875), Num(-9000), Num(10000)} }

RangeWeights ==
    { [dependency |-> None, distance |-> None, weather |-> None],
      [dependency |-> Num(-100), distance |-> Num(-100), weather |-> Num(-100)],
      [dependency |-> Num(300), distance |-> Num(300), weather |-> Num(300)],
      [dependency |-> Num(1000), distance |-> Num(0), weather |-> None] }

RangeOutcomes ==
    {FetchRaised, EmptyJson, Observation(Num(201), Num(20)),
     Observation(Num(800), None), Observation(Num(999), Num(100))}

\* line 272: evaluate_supplier is called on an orchestrator built with any
\* weights
InitRange ==
    /\ \E w \in RangeWeights : AtStep("evaluate", NoSupplier, DefaultEnterprise, w, TRUE)
    /\ dependency_risk = None
    /\ dist_info = None
    /\ weather_json = None
    /\ weather_risk = None
    /\ weather_requests = <<>>

\* lines 272-335
NextRange ==
    \/ GetSupplierNodeFrom(RangeSuppliers)
    \/ DependencyStep
    \/ DistanceStart
    \/ GeocodeSleep
    \/ GeocodeRequest
    \/ WeatherStepFrom(RangeOutcomes)
    \/ Aggregate

SpecRange == InitRange /\ [][NextRange]_vars

----------------------------------------------------------------------------
(* Several evaluations on one orchestrator, one after the other *)

\* the number of calls of evaluate_supplier in a sequence
MaxEvaluations == 3

\* records with and without coordinates, with and without a location
SequenceSuppliers ==
    { SupplierRecord("LankaCoco", location, Num(90), FALSE, <<>>, lat, Num(Meridian)) :
        location \in {"", "Kandy"}, lat \in {None, Num(875)} }

SequenceOutcomes == {FetchRaised, EmptyJson}

InitSequence ==
    /\ AtStep("evaluate", NoSupplier, DefaultEnterprise, DefaultWeights, TRUE)
    /\ dependency_risk = None
    /\ dist_info = None
    /\ weather_json = None
    /\ weather_risk = None
    /\ weather_requests = <<>>

\* line 272: evaluate_supplier has returned or raised, and its caller calls it
\* again on the same orchestrator; the locals of the call start afresh, the
\* agents and what they have done so far stay
EvaluateAgain ==
    /\ pc \in {"print", "finally"}
    /\ evaluations < MaxEvaluations
    /\ evaluations' = evaluations + 1
    /\ pc' = "evaluate"
    /\ supplier' = NoSupplier
    /\ dependency_risk' = None
    /\ location_text' = ""
    /\ geocoder' = None
    /\ dist_info' = None
    /\ weather_json' = None
    /\ weather_risk' = None
    /\ result' = None
    /\ error' = "none"
    /\ UNCHANGED <<inventory, api_key, enterprise_coords, weights, pauses,
                   geocode_requests, weather_requests, closed>>

NextSequence ==
    \/ GetSupplierNodeFrom(SequenceSuppliers)
    \/ DependencyStep
    \/ DistanceStart
    \/ GeocodeSleep
    \/ GeocodeRequest
    \/ WeatherStepFrom(SequenceOutcomes)
    \/ Aggregate
    \/ EvaluateAgain

SpecSequence == InitSequence /\ [][NextSequence]_vars

----------------------------------------------------------------------------
(* The inventory analyzer: app/services/spring_client.py *)

\* the evaluator of llm_service.py is not running
NoEvaluation ==
    /\ pc = "idle"
    /\ api_key = FALSE
    /\ enterprise_coords = DefaultEnterprise
    /\ weights = DefaultWeights
    /\ supplier = NoSupplier
    /\ dependency_risk = None
    /\ location_text = ""
    /\ geocoder = None
    /\ dist_info = None
    /\ weather_json = None
    /\ weather_risk = None
    /\ result = None
    /\ error = "none"
    /\ pauses = 0
    /\ geocode_requests = <<>>
    /\ weather_requests = <<>>
    /\ closed = 0
    /\ evaluations = 0

\* a thresholds dict; None stands for a key the dict does not hold
Thresholds(low, high) == [low_risk_min |-> low, high_risk_max |-> high]

\* lines 64-65: thresholds.get(key, default)
DefaultLowRiskMin == 100
DefaultHighRiskMax == 20
ThresholdOf(t, default) == IF t = None THEN default ELSE t.val

Scored(score, status) == [score |-> score, status |-> status]

AnalyzeInventoryRiskStrict(current_stock, thresholds) ==
    LET low_risk_min == ThresholdOf(thresholds.low_risk_min, DefaultLowRiskMin)
        high_risk_max == ThresholdOf(thresholds.high_risk_max, DefaultHighRiskMax)
    IN  IF current_stock < high_risk_max THEN Scored(5, "Critical")
        ELSE IF 2 * current_stock <= 3 * high_risk_max THEN Scored(4, "High Risk")
        ELSE IF 2 * current_stock <= low_risk_min THEN Scored(3, "Medium Risk")
        ELSE IF current_stock < low_risk_min THEN Scored(2, "Low Risk")
        ELSE Scored(1, "Safe")

\* lines 60-84; the comparisons with high_risk_max * 1.5 and low_risk_min / 2
\* are made on both sides doubled, which keeps them exact in integers
AnalyzeInventoryRisk(current_stock, thresholds) ==
    LET low_risk_min == ThresholdOf(thresholds.low_risk_min, DefaultLowRiskMin)
        high_risk_max == ThresholdOf(thresholds.high_risk_max, DefaultHighRiskMax)
    IN  IF current_stock <= high_risk_max THEN Scored(5, "Critical")
        ELSE IF 2 * current_stock <= 3 * high_risk_max THEN Scored(4, "High Risk")
        ELSE IF 2 * current_stock <= low_risk_min THEN Scored(3, "Medium Risk")
        ELSE IF current_stock < low_risk_min THEN Scored(2, "Low Risk")
        ELSE Scored(1, "Safe")

\* the largest stock level handed to analyze_inventory_risk
MaxStock == 150

ThresholdConfigs ==
    {Thresholds(low, high) : low \in {None, Num(100), Num(25), Num(10)},
                             high \in {None, Num(20), Num(5)}}

\* a caller is about to apply analyze_inventory_risk to a stock level
InitAnalyze ==
    /\ NoEvaluation
    /\ inventory \in {[pc |-> "analyze", current_stock |-> s, thresholds |-> t] :
                         s \in 0..MaxStock, t \in ThresholdConfigs}

\* lines 60-84: the call returns
AnalyzeCall ==
    /\ inventory.pc = "analyze"
    /\ inventory' = [pc |-> "analyzed",
                     current_stock |-> inventory.current_stock,
                     thresholds |-> inventory.thresholds,
                     risk |-> AnalyzeInventoryRisk(inventory.current_stock,
                                                   inventory.thresholds)]
    /\ UNCHANGED <<pc, api_key, enterprise_coords, weights, supplier, dependency_risk,
                   location_text, geocoder, dist_info, weather_json, weather_risk,
                   result, error, pauses, geocode_requests, weather_requests,
                   closed, evaluations>>

SpecAnalyze == InitAnalyze /\ [][AnalyzeCall]_vars

----------------------------------------------------------------------------
(* get_inventory_and_risk_score and the fetch it relies on *)

\* line 10: API_BASE_URL, as the sequence of its parts; the first is the
\* default of INVENTORY_API_URL
LocalBase == <<"http://localhost:8080">>
BaseUrls == {LocalBase, <<"http://localhost:8080", "/warehouse">>,
             <<"https://api.mycompany.com">>}

\* str.startswith
StartsWith(text, prefix) ==
    /\ Len(text) >= Len(prefix)
    /\ SubSeq(text, 1, Len(prefix)) = prefix

ItemIds == {"SKU-1", "SKU-2"}

\* what the inventory service would answer to a request: no answer, an error
\* status, a body that is not JSON, or a JSON object with its 'quantity'
ServiceDown == [tag |-> "down"]
ServiceBadStatus == [tag |-> "bad_status"]
ServiceBadJson == [tag |-> "bad_json"]
ServiceAnswer(quantity) == [tag |-> "ok", quantity |-> quantity]
ServiceStates ==
    {ServiceDown, ServiceBadStatus, ServiceBadJson}
    \cup {ServiceAnswer(q) : q \in {None, NonNumeric, Num(-5), Num(0), Num(15),
                                    Num(25), Num(45), Num(80), Num(150)}}

\* the (stock_quantity, error_message) that fetch_stock_level_from_api returns
Fetched(stock, msg) == [tag |-> "tuple", stock |-> stock, msg |-> msg]

\* line 30 passes params=params, and nothing in the function or the module
\* binds the name params
ParamsBound == FALSE

\* lines 14-56.  Evaluating the arguments of requests.get raises NameError
\* before any request is sent; NameError is neither a RequestException nor a
\* JSONDecodeError, so the handler of line 53 returns (0, message).
FetchStockLevelFromApi(service) ==
    IF ~ParamsBound THEN Fetched(0, "An unexpected error occurred during API fetch")
    ELSE IF service.tag \in {"down", "bad_status"} THEN Fetched(0, "API Request Error")
    ELSE IF service.tag = "bad_json" THEN Fetched(0, "API Response Error")
    ELSE IF IsNum(service.quantity) /\ service.quantity.val >= 0
         THEN Fetched(service.quantity.val, "")
    ELSE Fetched(0, "API returned successfully, but 'quantity' field was invalid")

\* lines 98-101
RISK_THRESHOLDS == Thresholds(Num(100), Num(20))

\* the risk_score of lines 137 and the status of line 138
NotAvailable == [tag |-> "str", val |-> "N/A"]
RetrievalFailure(msg) == [kind |-> "Data Retrieval Failure", detail |-> msg]

\* lines 125, 133: stock_level > 0 is defined for a number; for a tuple the
\* comparison raises TypeError
Comparable(v) == v.tag = "num"

\* lines 89-106: the call starts
InitInventory ==
    /\ NoEvaluation
    /\ inventory \in {[pc |-> "fetch", item_id |-> i, base_url |-> u, service |-> sv,
                       stock_level |-> Num(0), error_message |-> "",
                       data_source |-> "API", risk_score |-> None,
                       risk_status |-> None, raised |-> "none"] :
                         i \in ItemIds, u \in BaseUrls, sv \in ServiceStates}

InventoryUnchanged ==
    UNCHANGED <<pc, api_key, enterprise_coords, weights, supplier, dependency_risk,
                location_text, geocoder, dist_info, weather_json, weather_risk,
                result, error, pauses, geocode_requests, weather_requests,
                closed, evaluations>>

\* lines 108-118: the fetch catches every Exception itself, so the call of
\* line 109 returns a pair and neither except clause runs
FetchStock ==
    /\ inventory.pc = "fetch"
    /\ LET fetched == FetchStockLevelFromApi(inventory.service)
       IN  inventory' = [inventory EXCEPT !.pc = "fallback",
                                          !.stock_level = Num(fetched.stock),
                                          !.error_message = fetched.msg]
    /\ InventoryUnchanged

\* lines 123-129: after a failed fetch against a local base URL, line 124
\* binds stock_level to the whole pair the second fetch returns, and line 125
\* compares that pair with 0
LocalFallback ==
    /\ inventory.pc = "fallback"
    /\ IF /\ inventory.stock_level = Num(0)
          /\ inventory.error_message # ""
          /\ StartsWith(inventory.base_url, LocalBase)
       THEN LET again == FetchStockLevelFromApi(inventory.service)
            IN  IF Comparable(again)
                THEN inventory' = [inventory EXCEPT !.pc = "analysis",
                                                    !.stock_level = again]
                ELSE inventory' = [inventory EXCEPT !.pc = "raised",
                                                    !.stock_level = again,
                                                    !.raised = "TypeError"]
       ELSE inventory' = [inventory EXCEPT !.pc = "analysis"]
    /\ InventoryUnchanged

\* lines 133-152
AnalyzeStock ==
    /\ inventory.pc = "analysis"
    /\ IF ~Comparable(inventory.stock_level)
       THEN inventory' = [inventory EXCEPT !.pc = "raised", !.raised = "TypeError"]
       ELSE IF inventory.stock_level.val > 0
       THEN LET scored == AnalyzeInventoryRisk(inventory.stock_level.val,
                                               RISK_THRESHOLDS)
            IN  inventory' = [inventory EXCEPT !.pc = "returned",
                                               !.risk_score = Num(scored.score),
                                               !.risk_status = scored.status]
       ELSE inventory' =
               [inventory EXCEPT !.pc = "returned",
                                 !.risk_score = NotAvailable,
                                 !.risk_status =
                                     RetrievalFailure(inventory.error_message),
                                 !.data_source = "Failed"]
    /\ InventoryUnchanged

NextInventory == FetchStock \/ LocalFallback \/ AnalyzeStock

SpecInventory == InitInventory /\ [][NextInventory]_vars

----------------------------------------------------------------------------
(* Properties of analyze_inventory_risk (SpecAnalyze) *)

\* C11: analyze_inventory_risk gives a non-negative stock the tier of the first
\* rule that matches, in the order stock <= highRiskMax (5),
\* stock <= highRiskMax * 1.5 (4), stock <= lowRiskMin / 2 (3),
\* stock < lowRiskMin (2), otherwise 1; a threshold missing from the dict
\* takes its default, 100 for lowRiskMin and 20 for highRiskMax, and under the
\* defaults the tiers are 5 on 0..20, 4 on 21..30, 3 on 31..50, 2 on 51..99
\* and 1 from 100 on.
C11_TierOrder ==
    inventory.pc = "analyzed" =>
        LET s == inventory.current_stock
            t == inventory.thresholds
            low == IF t.low_risk_min = None THEN 100 ELSE t.low_risk_min.val
            high == IF t.high_risk_max = None THEN 20 ELSE t.high_risk_max.val
            tier == IF s <= high THEN 5
                    ELSE IF 2 * s <= 3 * high THEN 4
                    ELSE IF 2 * s <= low THEN 3
                    ELSE IF s < low THEN 2
                    ELSE 1
        IN  /\ inventory.risk.score = tier
            /\ (low = 100 /\ high = 20) =>
                  /\ s \in 0..20 => inventory.risk.score = 5
                  /\ s \in 21..30 => inventory.risk.score = 4
                  /\ s \in 31..50 => inventory.risk.score = 3
                  /\ s \in 51..99 => inventory.risk.score = 2
                  /\ s >= 100 => inventory.risk.score = 1

\* a stock of 20 scored against an empty thresholds dict: the defaults apply,
\* and the bound of tier 5 is inclusive
C11_Witness ==
    /\ inventory.pc = "analyzed"
    /\ inventory.thresholds = Thresholds(None, None)
    /\ inventory.current_stock = 20
    /\ inventory.risk = Scored(5, "Critical")

----------------------------------------------------------------------------
(* Properties of get_inventory_and_risk_score (SpecInventory) *)

\* the fetch of the stock level failed: it came back with an error message
RetrievalFailed == inventory.pc # "fetch" /\ inventory.error_message # ""

\* C12: whenever the stock retrieval has failed, get_inventory_and_risk_score
\* does not raise, and what it returns has the non-numeric unavailable
\* risk_score (never a numeric tier), a status that describes the failure and
\* data_source "Failed", whatever the base URL of the inventory service is.
C12_FailureIsUnavailable ==
    RetrievalFailed =>
        /\ inventory.raised = "none"
        /\ inventory.pc # "raised"
        /\ inventory.pc = "returned" =>
              /\ inventory.risk_score = NotAvailable
              /\ inventory.risk_status = RetrievalFailure(inventory.error_message)
              /\ inventory.data_source = "Failed"

----------------------------------------------------------------------------
(* Properties of the ranges of the risks (SpecRange) *)

\* C13: each of the three risks is in [0,10] as soon as its calculator has
\* produced it, and dependency_risk, distance_risk, weather_risk and
\* composite_risk of every result that evaluate_supplier returns are in
\* [0,10], whatever the reliability, the severities, the distance, the
\* weather observation and the weights are.
C13_RisksInRange ==
    /\ dependency_risk # None =>
          (0 <= dependency_risk.val /\ dependency_risk.val <= 10 * RiskUnit)
    /\ dist_info # None =>
          (0 <= dist_info.distance_risk /\ dist_info.distance_risk <= 10 * RiskUnit)
    /\ weather_risk # None =>
          (0 <= weather_risk.val /\ weather_risk.val <= 10 * RiskUnit)
    /\ result # None =>
          /\ 0 <= result.dependency_risk /\ result.dependency_risk <= 10 * RiskUnit
          /\ 0 <= result.distance_risk /\ result.distance_risk <= 10 * RiskUnit
          /\ 0 <= result.weather_risk /\ result.weather_risk <= 10 * RiskUnit
          /\ 0 <= result.composite_risk
          /\ result.composite_risk <= 10 * RiskUnit * WeightUnit

\* a reliability of 1.5 drives the dependency sum below 0, a supplier 9875 km
\* away drives the distance sum above 10, and weights of 3.0 drive the
\* weighted sum above 10: all three are clamped
C13_Witness ==
    /\ result # None
    /\ supplier.reliability = Num(150)
    /\ result.dependency_risk = 0
    /\ result.distance_km = Num(9875)
    /\ result.distance_risk = 10 * RiskUnit
    /\ weights.distance = Num(300)
    /\ result.composite_risk = 10 * RiskUnit * WeightUnit

----------------------------------------------------------------------------
(* Properties of the calls to the collaborators (Spec) *)

\* the coordinates that the distance step resolves for the supplier: its own
\* numeric lat/lon, else what the geocoder answered, else none
ResolvedCoords ==
    IF ~HasRecord THEN None
    ELSE IF IsNum(supplier.lat) /\ IsNum(supplier.lon)
    THEN Coords(supplier.lat.val, supplier.lon.val)
    ELSE IF geocoder.tag = "coords" THEN geocoder
    ELSE None

\* fetch_weather has been called: it returned or raised
WeatherCalled == weather_json # None

\* C14: in one run of evaluate_supplier the weather collaborator is called at
\* most once, only once the distance step has produced dist_info, and with
\* exactly the coordinates that step resolved; when the step resolved none,
\* the collaborator is not called and weather_risk is 4.0.
C14_WeatherCalledOnceWithResolved ==
    /\ Len(weather_requests) <= 1
    /\ WeatherCalled =>
          /\ dist_info # None
          /\ ResolvedCoords # None
          /\ pc \in {"aggregate", "print", "finally", "exit"}
          /\ api_key => weather_requests = <<ResolvedCoords>>
    /\ weather_requests # <<>> =>
          (WeatherCalled /\ weather_requests = <<ResolvedCoords>>)
    /\ (dist_info # None /\ ResolvedCoords = None /\ pc # "weather") =>
          /\ ~WeatherCalled
          /\ weather_requests = <<>>
          /\ weather_risk = Num(4 * RiskUnit)

\* the geocoder resolved the supplier 301 km north of the enterprise, and the
\* one weather request of the run carried those coordinates
C14_Witness ==
    /\ pc = "exit"
    /\ geocoder = Coords(1176, Meridian)
    /\ enterprise_coords = Coords(875, Meridian)
    /\ weather_requests = <<Coords(1176, Meridian)>>
    /\ result # None

\* the name of the supplier was sent to the geocoder
NameGeocoded == \E i \in 1..Len(geocode_requests) : geocode_requests[i] = supplier.name

\* C15 as claimed: the sources of coordinates are tried in the order lat/lon,
\* geocoded location, geocoded name, so a named supplier is left unresolved
\* only after the geocoding of its name was tried as well.
C15_NameIsLastResort ==
    (/\ HasRecord
     /\ dist_info # None
     /\ dist_info.supplier_coords = None
     /\ supplier.name # "") => NameGeocoded

\* C15 as amended: numeric lat/lon are used without any geocoding; otherwise
\* one text is geocoded, once: the location when it is not empty, else the
\* name; the coordinates are what that one geocoding answered, and the
\* supplier is unresolved when it answered none or when there was no text.
C15_LocationElseName ==
    HasRecord =>
        LET explicit == IF IsNum(supplier.lat) /\ IsNum(supplier.lon)
                        THEN Coords(supplier.lat.val, supplier.lon.val)
                        ELSE None
            text == IF supplier.location # "" THEN supplier.location
                    ELSE supplier.name
            answered == IF geocoder.tag = "coords" THEN geocoder ELSE None
        IN  /\ Len(geocode_requests) <= 1
            /\ explicit # None =>
                  /\ geocode_requests = <<>>
                  /\ dist_info # None => dist_info.supplier_coords = explicit
            /\ (explicit = None /\ text = "") =>
                  /\ geocode_requests = <<>>
                  /\ dist_info # None => dist_info = UnresolvedDistInfo
            /\ (explicit = None /\ text # "") =>
                  /\ geocode_requests \in {<<>>, <<text>>}
                  /\ dist_info # None =>
                        /\ geocode_requests = <<text>>
                        /\ dist_info.supplier_coords = answered

\* the geocoder found nothing for the location of a named supplier: the name
\* was not tried and the supplier stayed unresolved
C15_Witness ==
    /\ pc = "exit"
    /\ HasRecord
    /\ supplier.location = "Kandy"
    /\ supplier.name = "LankaCoco"
    /\ geocoder = GeocoderNothing
    /\ geocode_requests = <<"Kandy">>
    /\ dist_info = UnresolvedDistInfo
    /\ result # None

----------------------------------------------------------------------------
(* Properties of the geocoding pause (SpecSequence) *)

\* C16: over any sequence of evaluations, every request to the geocoder comes
\* right after a pause of its own: the completed pauses are never fewer than
\* the requests issued, and they exceed them, by exactly one, only between
\* a pause and the request it precedes.
C16_PauseBeforeEachRequest ==
    /\ pauses >= Len(geocode_requests)
    /\ pauses = Len(geocode_requests) + (IF pc = "geocode_request" THEN 1 ELSE 0)

\* two evaluations have geocoded, each after its own pause, and a third pause
\* is over with its request still to come
C16_Witness ==
    /\ evaluations = 3
    /\ pc = "geocode_request"
    /\ Len(geocode_requests) = 2
    /\ pauses = 3

----------------------------------------------------------------------------
(* Properties of main_cli's finally clause (SpecLive) *)

\* C17: once evaluate_supplier has been started in main_cli, the graph
\* connection is eventually closed, and closed exactly once, however the
\* evaluation and the printing of the report end: from some point on the
\* number of close() calls is 1 for ever, and it is never more than 1.
C17_ClosedExactlyOnce == [](closed <= 1) /\ <>[](pc = "exit" /\ closed = 1)

\* the report could not be printed, and the connection was closed all the same
C17_Witness ==
    /\ pc = "exit"
    /\ error = "PrintError"
    /\ result # None
    /\ closed = 1

====
